---- MODULE Spec2Model ----
(***************************************************************************)
(* Model of the two coredhcp statistics plugins of this repository:        *)
(*   requeststats  (src/unnamed/part_000)                                  *)
(*   responsestats (src/responsestats/plugin.go)                           *)
(*                                                                         *)
(* A DHCPv6 packet is a record                                             *)
(*   [kind, mtype, opts, inner]                                            *)
(* kind  "Message"       a client message, a dhcpv6.Message                *)
(*       "RelayMessage"  a relay envelope, a dhcpv6.RelayMessage; inner is *)
(*                       <<m>> when the envelope carries the packet m and  *)
(*                       <<>> when it carries no relay-message option      *)
(*       "Other"         a dhcpv6.DHCPv6 value of another concrete type    *)
(* opts is the option list of a client message, restricted to its identity *)
(* associations: records [code, id, alloc, status].                        *)
(*                                                                         *)
(* The Prometheus counters are write-only instruments that the handlers    *)
(* never read; the model keeps, for each counter, its increase since the   *)
(* host handed the current exchange to the plugins.                        *)
(***************************************************************************)
EXTENDS Integers, Sequences, FiniteSets, TLC

\* ------------------------------------------------------------------------
\* Bounds of the model
\* ------------------------------------------------------------------------

\* identifiers (IAIDs) are 1..MaxId
MaxId == 2

\* longest option list of a packet handed to a handler
MaxIAs == 1

\* deepest nesting of relay envelopes around a client message
MaxDepth == 2

\* longest request reservation list given to ia_fixup on its own
MaxFxReq == 2

\* longest response option list given to ia_fixup on its own
MaxFxResp == 2

\* ------------------------------------------------------------------------
\* Identity associations
\* ------------------------------------------------------------------------

Ids == 1..MaxId

\* dhcpv6.OptionIANA, dhcpv6.OptionIATA, dhcpv6.OptionIAPD
Codes == {"IANA", "IATA", "IAPD"}

\* iana.StatusNoAddrsAvail
StatusNoAddrsAvail == "NoAddrsAvail"

\* iana.StatusNoPrefixAvail
StatusNoPrefixAvail == "NoPrefixAvail"

\* an identity association without a status code option
NoStatus == "none"

\* An identity association option: alloc says whether it carries an address
\* (IA_NA, IA_TA) or at least one prefix (IA_PD).
IAOption(code, id, alloc, status) ==
    [code |-> code, id |-> id, alloc |-> alloc, status |-> status]

\* the identity associations a client puts in a request
RequestIAs == {IAOption(c, i, FALSE, NoStatus) : c \in Codes, i \in Ids}

\* the identity associations a server puts in a response
ResponseIAs == {IAOption(c, i, a, NoStatus) : c \in Codes, i \in Ids, a \in BOOLEAN}

\* all sequences over S of length at most n
SeqUpTo(S, n) == UNION {[1..k -> S] : k \in 0..n}

\* MessageOptions.IANA() / IATA() / IAPD(): the options of one code, in order
OptionsOfCode(opts, code) == SelectSeq(opts, LAMBDA o : o.code = code)

\* Id()
Id(ia) == ia.id

\* Allocated()
Allocated(ia) == ia.alloc

\* New(iaid): an empty identity association of the receiver's type
New(ia, iaid) == IAOption(ia.code, iaid, FALSE, NoStatus)

AddStatusUnavailable_Swapped(ia) ==
    [ia EXCEPT !.status = IF ia.code = "IAPD" THEN StatusNoAddrsAvail
                          ELSE StatusNoPrefixAvail]

\* AddStatusUnavailable(): the status code depends on the type
AddStatusUnavailable(ia) ==
    [ia EXCEPT !.status = IF ia.code = "IAPD" THEN StatusNoPrefixAvail
                          ELSE StatusNoAddrsAvail]

\* ------------------------------------------------------------------------
\* ia_fixup
\* ------------------------------------------------------------------------

RECURSIVE ScanFrom(_, _, _)
\* the inner loop of ia_fixup from position i on: the first response entry
\* with the request's identifier decides, and the loop breaks there
ScanFrom(iaid, response_ias, i) ==
    IF i > Len(response_ias) THEN "notfound"
    ELSE IF Id(response_ias[i]) = iaid
         THEN (IF Allocated(response_ias[i]) THEN "satisfied" ELSE "unsatisfied")
         ELSE ScanFrom(iaid, response_ias, i + 1)

RECURSIVE ScanLastFrom(_, _, _)
ScanLastFrom(iaid, response_ias, i) ==
    IF i < 1 THEN "notfound"
    ELSE IF Id(response_ias[i]) = iaid
         THEN (IF Allocated(response_ias[i]) THEN "satisfied" ELSE "unsatisfied")
         ELSE ScanLastFrom(iaid, response_ias, i - 1)

Scan_LastMatch(iaid, response_ias) == ScanLastFrom(iaid, response_ias, Len(response_ias))

\* the inner loop of ia_fixup for one request reservation
Scan(iaid, response_ias) == ScanFrom(iaid, response_ias, 1)

FixupStep_NoAppend(st, reqia, response_ias) ==
    LET found == Scan(Id(reqia), response_ias) IN
    IF found = "satisfied" THEN [st EXCEPT !.satisfied = @ + 1]
    ELSE IF found = "unsatisfied" THEN [st EXCEPT !.unsatisfied = @ + 1]
    ELSE [st EXCEPT !.unsatisfied = @ + 1, !.newstatus = @ + 1]

\* one iteration of the outer loop of ia_fixup; st holds the locals
\* satisfied, unsatisfied, newstatus and the option list of *resp
FixupStep(st, reqia, response_ias) ==
    LET found == Scan(Id(reqia), response_ias) IN
    IF found = "satisfied" THEN [st EXCEPT !.satisfied = @ + 1]
    ELSE IF found = "unsatisfied" THEN [st EXCEPT !.unsatisfied = @ + 1]
    ELSE [st EXCEPT !.unsatisfied = @ + 1,
                    !.newstatus = @ + 1,
                    !.opts = Append(@, AddStatusUnavailable(New(reqia, Id(reqia))))]

RECURSIVE FixupLoop(_, _, _, _)
\* the outer loop of ia_fixup from request position i on
FixupLoop(st, request_ias, response_ias, i) ==
    IF i > Len(request_ias) THEN st
    ELSE FixupLoop(FixupStep(st, request_ias[i], response_ias),
                   request_ias, response_ias, i + 1)

\* the result string of ia_fixup
Quantifier(satisfied, unsatisfied) ==
    IF unsatisfied = 0 THEN "all"
    ELSE IF satisfied = 0 THEN "none"
    ELSE "some"

\* ia_fixup(resp, request_ias, response_ias): resp_opts is the option list of
\* *resp on entry; the result holds the returned pair (quantifier, newstatus),
\* the option list of *resp on return and the two local counts
ia_fixup(resp_opts, request_ias, response_ias) ==
    LET st == FixupLoop([satisfied |-> 0, unsatisfied |-> 0, newstatus |-> 0,
                         opts |-> resp_opts],
                        request_ias, response_ias, 1)
    IN [quantifier  |-> Quantifier(st.satisfied, st.unsatisfied),
        newstatus   |-> st.newstatus,
        opts        |-> st.opts,
        satisfied   |-> st.satisfied,
        unsatisfied |-> st.unsatisfied]

\* ------------------------------------------------------------------------
\* Counters
\* ------------------------------------------------------------------------

\* a counter vector with no child yet
NoCounts == [l \in {} |-> 0]

\* the value of the child with label values l (0 when it was never touched)
Count(c, l) == IF l \in DOMAIN c THEN c[l] ELSE 0

\* WithLabelValues(l).Add(n)
Add(c, l, n) == [x \in DOMAIN c \cup {l} |-> IF x = l THEN Count(c, l) + n ELSE c[x]]

\* WithLabelValues(l).Inc()
Inc(c, l) == Add(c, l, 1)

\* the sum of all children of a counter vector
RECURSIVE SumOver(_, _)
SumOver(c, S) ==
    IF S = {} THEN 0
    ELSE LET l == CHOOSE x \in S : TRUE IN c[l] + SumOver(c, S \ {l})

Total(c) == SumOver(c, DOMAIN c)

\* ------------------------------------------------------------------------
\* DHCPv6 packets
\* ------------------------------------------------------------------------

\* message types of client requests
RequestTypes6 == {"Solicit", "Request"}

\* message types of server responses
ResponseTypes6 == {"Advertise", "Reply"}

\* a client message
Message(mtype, opts) ==
    [kind |-> "Message", mtype |-> mtype, opts |-> opts, inner |-> <<>>]

\* a relay envelope; inner is <<>> or <<the packet it carries>>
RelayMessage(mtype, inner) ==
    [kind |-> "RelayMessage", mtype |-> mtype, opts |-> <<>>, inner |-> inner]

\* a dhcpv6.DHCPv6 value that is neither a Message nor a RelayMessage
Other6 == [kind |-> "Other", mtype |-> "Other", opts |-> <<>>, inner |-> <<>>]

\* the nil packet
Nil6 == [kind |-> "nil", mtype |-> "nil", opts |-> <<>>, inner |-> <<>>]

\* the client messages a request can be or carry
ClientRequests6 ==
    {Message(t, o) : t \in RequestTypes6, o \in SeqUpTo(RequestIAs, MaxIAs)}

\* the client messages a server proposes as a response
ClientResponses6 ==
    {Message(t, o) : t \in ResponseTypes6, o \in SeqUpTo(ResponseIAs, MaxIAs)}

RECURSIVE Envelopes(_)
\* relay envelopes nested at most d deep: around a client request, or around
\* nothing (an envelope without a relay-message option)
Envelopes(d) ==
    IF d = 0 THEN {}
    ELSE LET E == Envelopes(d - 1) IN
         E \cup {RelayMessage("RelayForw", <<m>>) : m \in ClientRequests6 \cup E}
           \cup {RelayMessage("RelayForw", <<>>)}

\* the requests the host hands to a handler
Requests6 == ClientRequests6 \cup Envelopes(MaxDepth) \cup {Other6}

\* the responses the host hands to a handler
Responses6 == ClientResponses6 \cup {RelayMessage("RelayRepl", <<>>)}

\* IsRelay()
IsRelay(p) == p.kind = "RelayMessage"

\* the number of envelopes around the innermost packet
RECURSIVE WrapDepth(_)
WrapDepth(p) ==
    IF IsRelay(p) /\ p.inner # <<>> THEN 1 + WrapDepth(p.inner[1])
    ELSE IF IsRelay(p) THEN 1 ELSE 0

\* the packet at the bottom of a chain of envelopes: a client message, or an
\* envelope that carries nothing
RECURSIVE Innermost(_)
Innermost(p) == IF IsRelay(p) /\ p.inner # <<>> THEN Innermost(p.inner[1]) ELSE p

\* The four operators below follow github.com/insomniacslk/dhcp/dhcpv6, the
\* library the handlers call; its two packet types are Message and
\* RelayMessage.

\* a library call's result: a value or an error
Ok(v) == [err |-> FALSE, val |-> v]
Err == [err |-> TRUE, val |-> Nil6]

\* dhcpv6.DecapsulateRelay: the packet an envelope carries; a packet that is
\* no envelope is returned as it is
DecapsulateRelay(l) ==
    IF ~IsRelay(l) THEN Ok(l)
    ELSE IF l.inner = <<>> THEN Err
    ELSE Ok(l.inner[1])

RECURSIVE DecapsulateLast(_)
\* the loop of DecapsulateRelayIndex for index -1: the last envelope, the one
\* whose content is no envelope
DecapsulateLast(l) ==
    LET d == DecapsulateRelay(l) IN
    IF d.err THEN Err
    ELSE IF ~IsRelay(d.val) THEN Ok(l)
    ELSE DecapsulateLast(d.val)

RECURSIVE DecapsulateUpTo(_, _, _)
\* the loop of DecapsulateRelayIndex for an index >= 0
DecapsulateUpTo(l, i, index) ==
    IF i > index THEN Ok(l)
    ELSE LET d == DecapsulateRelay(l) IN
         IF d.err THEN Err ELSE DecapsulateUpTo(d.val, i + 1, index)

\* dhcpv6.DecapsulateRelayIndex
DecapsulateRelayIndex(l, index) ==
    IF ~IsRelay(l) THEN Ok(l)
    ELSE IF index < -1 THEN Err
    ELSE IF index = -1 THEN DecapsulateLast(l)
    ELSE DecapsulateUpTo(l, 0, index)

RECURSIVE GetInnerMessage(_)
\* RelayMessage.GetInnerMessage: decapsulate until a client message shows
GetInnerMessage(r) ==
    LET p == DecapsulateRelay(r) IN
    IF p.err THEN Err
    ELSE IF p.val.kind = "Message" THEN Ok(p.val)
    ELSE GetInnerMessage(p.val)

\* ------------------------------------------------------------------------
\* requeststats: Handler6
\* ------------------------------------------------------------------------

\* the counters of package requeststats and the outcome of its handler for
\* the current exchange (ran: the handler was called; drop, ret: what it
\* returned)
RequestStatsInit ==
    [ran |-> FALSE, drop |-> FALSE, ret |-> Nil6,
     v4types |-> NoCounts, v4relay |-> 0, v4raimissingsuboptions |-> NoCounts,
     v6types |-> NoCounts, v6relay |-> 0, v6ia |-> NoCounts]

\* return nil, true
Dropped(s) == [s EXCEPT !.ran = TRUE, !.drop = TRUE, !.ret = Nil6]

\* return resp, false
Passed(s, resp) == [s EXCEPT !.ran = TRUE, !.drop = FALSE, !.ret = resp]

\* v6types.WithLabelValues("error").Inc(); return nil, true
RequestErrorDrop6(s) == Dropped([s EXCEPT !.v6types = Inc(@, "error")])

RequestCountRelay6_PerEnvelope(s, req) == [s EXCEPT !.v6relay = @ + WrapDepth(req)]

\* if req.IsRelay() { v6relay.Inc() }
RequestCountRelay6(s, req) ==
    IF IsRelay(req) THEN [s EXCEPT !.v6relay = @ + 1] ELSE s

\* one requested-reservation counter: Add(len) when len > 0
CountIAsOf(s, msg, code, label) ==
    LET n == Len(OptionsOfCode(msg.opts, code)) IN
    IF n > 0 THEN [s EXCEPT !.v6ia = Add(@, label, n)] ELSE s

\* the three requested-reservation counters
CountIAs(s, msg) ==
    CountIAsOf(CountIAsOf(CountIAsOf(s, msg, "IANA", "IA_NA"),
                          msg, "IATA", "IA_TA"),
               msg, "IAPD", "IA_PD")

\* requeststats.PluginState.Handler6
RequestStatsHandler6(s, req, resp) ==
    LET s1 == RequestCountRelay6(s, req) IN
    IF ~IsRelay(req) /\ req.kind # "Message" THEN RequestErrorDrop6(s1)
    ELSE LET innermsg == DecapsulateRelayIndex(req, -1) IN
         IF innermsg.err THEN RequestErrorDrop6(s1)
         ELSE IF innermsg.val.kind # "RelayMessage" THEN RequestErrorDrop6(s1)
         ELSE LET msg == GetInnerMessage(innermsg.val) IN
              IF msg.err THEN RequestErrorDrop6(s1)
              ELSE Passed(CountIAs([s1 EXCEPT !.v6types = Inc(@, msg.val.mtype)],
                                   msg.val),
                          resp)

\* ------------------------------------------------------------------------
\* responsestats: Handler6
\* ------------------------------------------------------------------------

\* the counters of package responsestats, the lines given to state.Logger,
\* the types ia_fixup was called for, and the outcome of the handler for the
\* current exchange
ResponseStatsInit ==
    [ran |-> FALSE, drop |-> FALSE, ret |-> Nil6,
     v4types |-> NoCounts, v4processed |-> NoCounts, v4relay |-> 0,
     v6types |-> NoCounts, v6relay |-> 0, v6processed |-> NoCounts,
     logged |-> <<>>, fixups |-> <<>>]

ResponseErrorDrop6_Forward(s) ==
    [s EXCEPT !.v6types = Inc(@, "error"), !.ran = TRUE]

\* v6types.WithLabelValues("error").Inc(); return nil, true
ResponseErrorDrop6(s) == Dropped([s EXCEPT !.v6types = Inc(@, "error")])

\* if reqmsg.IsRelay() { v6relay.Inc() }
ResponseCountRelay6(s, reqmsg) ==
    IF IsRelay(reqmsg) THEN [s EXCEPT !.v6relay = @ + 1] ELSE s

FixupIf_Always(loc, reqmsg, code, label) ==
    LET r == ia_fixup(loc.opts, OptionsOfCode(reqmsg.opts, code),
                      OptionsOfCode(loc.opts, code))
    IN [s |-> [loc.s EXCEPT !.v6processed = Inc(@, <<label, r.quantifier>>),
                            !.fixups = Append(@, code)],
        opts |-> r.opts,
        all_adds |-> loc.all_adds + r.newstatus]

\* one of the three reconciliation blocks of Handler6; loc holds the plugin
\* state, the option list of the response and the local all_adds
FixupIf(loc, reqmsg, code, label) ==
    IF Len(OptionsOfCode(reqmsg.opts, code)) > 0
    THEN LET r == ia_fixup(loc.opts, OptionsOfCode(reqmsg.opts, code),
                           OptionsOfCode(loc.opts, code))
         IN [s |-> [loc.s EXCEPT !.v6processed = Inc(@, <<label, r.quantifier>>),
                                 !.fixups = Append(@, code)],
             opts |-> r.opts,
             all_adds |-> loc.all_adds + r.newstatus]
    ELSE loc

LogLine6_OnlyAdded(s, all_adds) ==
    IF all_adds > 0
    THEN [s EXCEPT !.logged = Append(@, [fmt |-> "[added %d statuscodes] %s",
                                         adds |-> all_adds])]
    ELSE s

\* the line Handler6 gives to state.Logger
LogLine6(s, all_adds) ==
    IF all_adds > 0
    THEN [s EXCEPT !.logged = Append(@, [fmt |-> "[added %d statuscodes] %s",
                                         adds |-> all_adds])]
    ELSE [s EXCEPT !.logged = Append(@, [fmt |-> "%s", adds |-> 0])]

\* responsestats.PluginState.Handler6
ResponseStatsHandler6(s, req, resp) ==
    IF resp.kind # "Message" THEN ResponseErrorDrop6(s)
    ELSE IF req.kind # "Message" THEN ResponseErrorDrop6(s)
    ELSE LET s1 == ResponseCountRelay6(s, req)
             s2 == [s1 EXCEPT !.v6types = Inc(@, resp.mtype)]
             l0 == [s |-> s2, opts |-> resp.opts, all_adds |-> 0]
             l1 == FixupIf(l0, req, "IANA", "IA_NA")
             l2 == FixupIf(l1, req, "IATA", "IA_TA")
             l3 == FixupIf(l2, req, "IAPD", "IA_PD")
         IN Passed(LogLine6(l3.s, l3.all_adds), [resp EXCEPT !.opts = l3.opts])

\* ------------------------------------------------------------------------
\* DHCPv4 packets
\* ------------------------------------------------------------------------

\* a net.IP as text; "" is the IP of length 0
IPs == {"", "0.0.0.0", "10.99.99.1"}

\* len(ip) == 0 || ip.IsUnspecified()
InvalidIP(ip) == ip = "" \/ ip = "0.0.0.0"

\* the text "<unspecified>" the response handler uses as interface label
Unspecified == "<unspecified>"

\* values of the circuit-id and remote-id sub-options; GetString gives "" for
\* a sub-option that is absent
SubOptionStrings == {"", "eth0", Unspecified}

\* values of the link-selection sub-option; "" when GetIP gives nil
LinkSelections == {"", "192.0.2.1"}

\* req.RelayAgentInfo(): <<>> is nil
RelayAgentInfos ==
    {<<>>} \cup {<<[circuit |-> c, remote |-> r, link |-> l]>> :
                    c \in SubOptionStrings, r \in SubOptionStrings,
                    l \in LinkSelections}

Requests4 ==
    [opcode : {"BootRequest", "BootReply"}, mtype : {"DISCOVER", "REQUEST"},
     giaddr : IPs, rai : RelayAgentInfos]

Responses4 == [mtype : {"OFFER", "ACK"}, yiaddr : IPs, giaddr : IPs]

\* ------------------------------------------------------------------------
\* requeststats: Handler4
\* ------------------------------------------------------------------------

\* intfstr of the request handler: the circuit-id, or the remote-id when the
\* circuit-id is empty
RequestInterfaceString(rai) == IF rai.circuit # "" THEN rai.circuit ELSE rai.remote

\* the relay branch of Handler4: the request has relay agent info and a valid
\* gateway address
CountRelay4(s, rai) ==
    LET s1 == [s EXCEPT !.v4relay = @ + 1]
        s2 == IF rai.link = ""
              THEN [s1 EXCEPT !.v4raimissingsuboptions = Inc(@, "LinkSelectionSubOption")]
              ELSE s1
    IN IF RequestInterfaceString(rai) = ""
       THEN [s2 EXCEPT !.v4raimissingsuboptions = Inc(@, "AgentIDSubOption")]
       ELSE s2

\* requeststats.PluginState.Handler4
RequestStatsHandler4(s, req, resp) ==
    IF req.opcode # "BootRequest"
    THEN Passed([s EXCEPT !.v4types = Inc(@, "ignored")], resp)
    ELSE LET s1 == [s EXCEPT !.v4types = Inc(@, req.mtype)]
             giaddr_invalid == InvalidIP(req.giaddr)
         IN IF req.rai = <<>> \/ giaddr_invalid
            THEN (IF req.rai # <<>>
                  THEN Passed([s1 EXCEPT
                                 !.v4raimissingsuboptions = Inc(@, "GatewayIPAddr"),
                                 !.v4relay = @ + 1], resp)
                  ELSE IF ~giaddr_invalid
                  THEN Passed([s1 EXCEPT
                                 !.v4raimissingsuboptions = Inc(@, "RelayAgentInfo"),
                                 !.v4relay = @ + 1], resp)
                  ELSE Passed(s1, resp))
            ELSE Passed(CountRelay4(s1, req.rai[1]), resp)

\* ------------------------------------------------------------------------
\* responsestats: Handler4
\* ------------------------------------------------------------------------

InterfaceLabel_RemoteFirst(rai) ==
    IF rai.remote # "" THEN rai.remote
    ELSE IF rai.circuit # "" THEN rai.circuit
    ELSE Unspecified

\* intfstr of the response handler: the circuit-id, else the remote-id, else
\* "<unspecified>"
InterfaceLabel(rai) ==
    IF rai.circuit # "" THEN rai.circuit
    ELSE IF rai.remote # "" THEN rai.remote
    ELSE Unspecified

\* the line Handler4 logs for a request without relay agent info
PlainLine4(resp) ==
    IF InvalidIP(resp.giaddr)
    THEN [fmt |-> "MAC %s allocated %s", link |-> "", intf |-> ""]
    ELSE [fmt |-> "[giaddr=%s has no RAI] MAC %s allocated %s", link |-> "", intf |-> ""]

\* the line Handler4 logs for a request with relay agent info
RelayLine4(rai) ==
    [fmt |-> "[relay=%s link=%s intf=%s] MAC %s allocated %s",
     link |-> rai.link, intf |-> InterfaceLabel(rai)]

\* responsestats.PluginState.Handler4
ResponseStatsHandler4(s, req, resp) ==
    IF req.opcode # "BootRequest" THEN Passed(s, resp)
    ELSE LET has_yiaddr == ~InvalidIP(resp.yiaddr)
             s1 == IF resp.mtype = "ACK" /\ has_yiaddr
                   THEN [s EXCEPT !.v4processed = Inc(@, "all")]
                   ELSE s
             s2 == [s1 EXCEPT !.v4types = Inc(@, resp.mtype)]
         IN IF req.rai = <<>>
            THEN Passed([s2 EXCEPT !.logged = Append(@, PlainLine4(resp))], resp)
            ELSE Passed([s2 EXCEPT !.v4relay = @ + 1,
                                   !.logged = Append(@, RelayLine4(req.rai[1]))],
                        resp)

\* ------------------------------------------------------------------------
\* The plugins at work: the host hands them one exchange at a time
\* ------------------------------------------------------------------------

VARIABLES
    family,         \* "none", or the protocol of the current exchange
    req,            \* the request of the current exchange
    resp,           \* the response the server proposes for it
    requeststats,   \* package requeststats
    responsestats,  \* package responsestats
    fx              \* one call of ia_fixup on its own

vars == <<family, req, resp, requeststats, responsestats, fx>>

\* no call of ia_fixup on its own
FxIdle ==
    [done |-> FALSE, code |-> "none", request_ias |-> <<>>, resp_opts |-> <<>>,
     result |-> [quantifier |-> "", newstatus |-> 0, opts |-> <<>>,
                 satisfied |-> 0, unsatisfied |-> 0]]

Idle ==
    /\ family = "none"
    /\ req = Nil6
    /\ resp = Nil6
    /\ requeststats = RequestStatsInit
    /\ responsestats = ResponseStatsInit

Init == Idle /\ fx = FxIdle

\* the host has a DHCPv6 request and a proposed response
Receive6 ==
    /\ family = "none"
    /\ \E q \in Requests6, r \in Responses6 :
          /\ family' = "v6"
          /\ req' = q
          /\ resp' = r
    /\ UNCHANGED <<requeststats, responsestats, fx>>

\* the host has a DHCPv4 request and a proposed response
Receive4 ==
    /\ family = "none"
    /\ \E q \in Requests4, r \in Responses4 :
          /\ family' = "v4"
          /\ req' = q
          /\ resp' = r
    /\ UNCHANGED <<requeststats, responsestats, fx>>

\* the host calls requeststats, which comes before responsestats in a chain
RequestStats6 ==
    /\ family = "v6"
    /\ ~requeststats.ran
    /\ ~responsestats.ran
    /\ requeststats' = RequestStatsHandler6(requeststats, req, resp)
    /\ UNCHANGED <<family, req, resp, responsestats, fx>>

RequestStats4 ==
    /\ family = "v4"
    /\ ~requeststats.ran
    /\ ~responsestats.ran
    /\ requeststats' = RequestStatsHandler4(requeststats, req, resp)
    /\ UNCHANGED <<family, req, resp, responsestats, fx>>

\* the response a handler is called with: what the handler before it returned
Proposed == IF requeststats.ran THEN requeststats.ret ELSE resp

\* the host calls responsestats, unless a handler before it said drop
ResponseStats6 ==
    /\ family = "v6"
    /\ ~responsestats.ran
    /\ requeststats.ran => ~requeststats.drop
    /\ responsestats' = ResponseStatsHandler6(responsestats, req, Proposed)
    /\ UNCHANGED <<family, req, resp, requeststats, fx>>

ResponseStats4 ==
    /\ family = "v4"
    /\ ~responsestats.ran
    /\ requeststats.ran => ~requeststats.drop
    /\ responsestats' = ResponseStatsHandler4(responsestats, req, Proposed)
    /\ UNCHANGED <<family, req, resp, requeststats, fx>>

\* the exchange is over
Finish ==
    /\ family # "none"
    /\ family' = "none"
    /\ req' = Nil6
    /\ resp' = Nil6
    /\ requeststats' = RequestStatsInit
    /\ responsestats' = ResponseStatsInit
    /\ UNCHANGED fx

Next ==
    \/ Receive6
    \/ Receive4
    \/ RequestStats6
    \/ RequestStats4
    \/ ResponseStats6
    \/ ResponseStats4
    \/ Finish

Spec == Init /\ [][Next]_vars

\* ------------------------------------------------------------------------
\* ia_fixup on its own
\* ------------------------------------------------------------------------

\* a second reservation type, for response options ia_fixup must leave alone
OtherCode(code) == IF code = "IANA" THEN "IAPD" ELSE "IANA"

\* the calls of ia_fixup: any request reservations of one type, and a
\* response whose reservations of that type are what the caller passes
FixupInputs ==
    UNION {
      [done : {FALSE}, code : {code},
       request_ias : SeqUpTo({IAOption(code, i, FALSE, NoStatus) : i \in Ids}, MaxFxReq),
       resp_opts : SeqUpTo({IAOption(c, i, a, NoStatus) :
                               c \in {code, OtherCode(code)}, i \in Ids,
                               a \in BOOLEAN}, MaxFxResp),
       result : {FxIdle.result}] : code \in Codes}

InitFixup == Idle /\ fx \in FixupInputs

FixupCall ==
    /\ ~fx.done
    /\ fx' = [fx EXCEPT !.done = TRUE,
                        !.result = ia_fixup(fx.resp_opts, fx.request_ias,
                                            OptionsOfCode(fx.resp_opts, fx.code))]
    /\ UNCHANGED <<family, req, resp, requeststats, responsestats>>

NextFixup == FixupCall

SpecFixup == InitFixup /\ [][NextFixup]_vars

\* ------------------------------------------------------------------------
\* Properties of ia_fixup (checked under SpecFixup)
\* ------------------------------------------------------------------------

\* the response reservations the caller passes to ia_fixup
FxResponseIAs == OptionsOfCode(fx.resp_opts, fx.code)

\* no two entries of a reservation list have the same identifier
NoDuplicateIds(ias) ==
    \A i, j \in 1..Len(ias) : i # j => ias[i].id # ias[j].id

\* C2: when the response holds no two reservations of the type with the same
\* identifier before ia_fixup, it holds none after it, whatever the request
\* (the same identifier may be requested more than once)
C2_NoDuplicatesAfterFixup ==
    (fx.done /\ NoDuplicateIds(FxResponseIAs))
        => NoDuplicateIds(OptionsOfCode(fx.result.opts, fx.code))

\* the first response entry with this identifier exists and is allocated
FirstMatchAllocated(iaid, ias) ==
    \E j \in 1..Len(ias) :
        /\ ias[j].id = iaid
        /\ ias[j].alloc
        /\ \A k \in 1..(j - 1) : ias[k].id # iaid

\* the positions of the request reservations whose first match is allocated
SatisfiedRequests ==
    {i \in 1..Len(fx.request_ias) :
        FirstMatchAllocated(fx.request_ias[i].id, FxResponseIAs)}

\* C3: for a non-empty request, satisfied counts the request reservations
\* whose FIRST response entry with the same identifier is allocated,
\* unsatisfied counts all others, and the result is "none" when satisfied = 0,
\* "all" when unsatisfied = 0 and "some" otherwise
C3_QuantifierFirstMatch ==
    (fx.done /\ Len(fx.request_ias) > 0) =>
        LET sat == Cardinality(SatisfiedRequests)
            unsat == Len(fx.request_ias) - sat
        IN /\ fx.result.satisfied = sat
           /\ fx.result.unsatisfied = unsat
           /\ fx.result.quantifier =
                 (IF sat = 0 THEN "none" ELSE IF unsat = 0 THEN "all" ELSE "some")

\* a requested identifier occurs twice in the response, first unallocated and
\* then allocated, so that the tie-break decides the count
C3_Witness ==
    /\ fx.done
    /\ Len(fx.request_ias) > 0
    /\ \E j, k \in 1..Len(FxResponseIAs) :
          /\ j < k
          /\ FxResponseIAs[j].id = fx.request_ias[1].id
          /\ FxResponseIAs[k].id = fx.request_ias[1].id
          /\ ~FxResponseIAs[j].alloc
          /\ FxResponseIAs[k].alloc
    /\ fx.result.quantifier = "none"

\* the request reservations whose identifier the original response lacks
AbsentRequests ==
    SelectSeq(fx.request_ias,
              LAMBDA r : \A j \in 1..Len(FxResponseIAs) : FxResponseIAs[j].id # r.id)

\* the denial marker for a request reservation
DenialMarker(r) ==
    [code |-> r.code, id |-> r.id, alloc |-> FALSE,
     status |-> IF r.code \in {"IANA", "IATA"} THEN "NoAddrsAvail" ELSE "NoPrefixAvail"]

\* C4: after ia_fixup the option list is the original list followed by one
\* denial marker per request reservation absent from the original response,
\* in request order, each with that reservation's identifier and type, no
\* granted resource and the status of the type; newstatus is their number
C4_AppendOnlyDenials ==
    fx.done =>
        /\ fx.result.opts =
              fx.resp_opts \o [i \in 1..Len(AbsentRequests) |->
                                  DenialMarker(AbsentRequests[i])]
        /\ fx.result.newstatus = Len(AbsentRequests)

\* two markers were appended behind a response that had options already
C4_Witness ==
    /\ fx.done
    /\ fx.resp_opts # <<>>
    /\ fx.result.newstatus = 2
    /\ Len(fx.result.opts) = Len(fx.resp_opts) + 2

\* ------------------------------------------------------------------------
\* Properties of the DHCPv6 handlers (checked under Spec)
\* ------------------------------------------------------------------------

\* requeststats.Handler6 has returned for the current exchange
RequestDone6 == family = "v6" /\ requeststats.ran

\* responsestats.Handler6 has returned for the current exchange
ResponseDone6 == family = "v6" /\ responsestats.ran

\* the label of a reservation type in the counters
TypeLabel(code) ==
    IF code = "IANA" THEN "IA_NA" ELSE IF code = "IATA" THEN "IA_TA" ELSE "IA_PD"

\* the quantifier increments made for one reservation type
QuantifierIncrements(code) ==
    Count(responsestats.v6processed, <<TypeLabel(code), "all">>)
    + Count(responsestats.v6processed, <<TypeLabel(code), "some">>)
    + Count(responsestats.v6processed, <<TypeLabel(code), "none">>)

\* the number of calls of ia_fixup for one reservation type
FixupCalls(code) ==
    Cardinality({i \in 1..Len(responsestats.fixups) : responsestats.fixups[i] = code})

\* C1: when the response handler does not drop a DHCPv6 exchange, every
\* identifier among the request's reservations of a type is the identifier of
\* a reservation of that type in the returned response: an entry the response
\* had already, or a denial marker appended behind the original options
C1_ReconciliationComplete ==
    (ResponseDone6 /\ ~responsestats.drop) =>
        \A i \in 1..Len(req.opts) :
            \E j \in 1..Len(responsestats.ret.opts) :
                /\ responsestats.ret.opts[j].code = req.opts[i].code
                /\ responsestats.ret.opts[j].id = req.opts[i].id
                /\ \/ /\ j <= Len(resp.opts)
                      /\ responsestats.ret.opts[j] = resp.opts[j]
                   \/ /\ j > Len(resp.opts)
                      /\ responsestats.ret.opts[j] = DenialMarker(req.opts[i])

\* a requested identifier the response lacked came back as a denial marker,
\* behind a response option of the same type with another identifier
C1_Witness ==
    /\ ResponseDone6
    /\ ~responsestats.drop
    /\ Len(req.opts) > 0
    /\ Len(resp.opts) > 0
    /\ resp.opts[1].code = req.opts[1].code
    /\ resp.opts[1].id # req.opts[1].id
    /\ Len(responsestats.ret.opts) = Len(resp.opts) + 1

\* C5: for a request that is a client message without relay envelope the
\* request handler returns drop = false and the response unchanged, counts
\* the message's type once, counts no "error" and no relay
C5_PlainClientMessage ==
    (RequestDone6 /\ req.kind = "Message") =>
        /\ ~requeststats.drop
        /\ requeststats.ret = resp
        /\ Count(requeststats.v6types, req.mtype) = 1
        /\ Count(requeststats.v6types, "error") = 0
        /\ requeststats.v6relay = 0

\* C6: when the request or the response given to the DHCPv6 response handler
\* is no client message, the handler returns nil and drop = true, counts
\* "error" once and no message type, relay or reservation outcome, never
\* calls ia_fixup and gives no line to the Logger
C6_ShapeMismatchDrop ==
    (ResponseDone6 /\ (req.kind # "Message" \/ resp.kind # "Message")) =>
        /\ responsestats.drop
        /\ responsestats.ret = Nil6
        /\ Count(responsestats.v6types, "error") = 1
        /\ Total(responsestats.v6types) = 1
        /\ responsestats.v6relay = 0
        /\ responsestats.v6processed = NoCounts
        /\ responsestats.fixups = <<>>
        /\ responsestats.logged = <<>>

\* the response is a client message with options, the request an envelope
\* around a client message
C6_Witness ==
    /\ ResponseDone6
    /\ IsRelay(req)
    /\ Innermost(req).kind = "Message"
    /\ resp.kind = "Message"
    /\ resp.opts # <<>>
    /\ responsestats.drop

\* the requested-reservation counters a client message calls for
ExpectedIACounts(msg) ==
    \A code \in Codes :
        Count(requeststats.v6ia, TypeLabel(code)) = Len(OptionsOfCode(msg.opts, code))

\* C7: for a request of N >= 1 nested relay envelopes the request handler
\* returns; around a client message it returns drop = false and the response
\* unchanged, counts one relay (not N), and counts the type and the
\* reservations of the innermost client message only; when an envelope
\* carries no inner message it returns drop = true and counts "error" once
C7_NestedEnvelopes ==
    (RequestDone6 /\ IsRelay(req)) =>
        IF Innermost(req).kind = "Message"
        THEN /\ ~requeststats.drop
             /\ requeststats.ret = resp
             /\ requeststats.v6relay = 1
             /\ Count(requeststats.v6types, Innermost(req).mtype) = 1
             /\ Total(requeststats.v6types) = 1
             /\ ExpectedIACounts(Innermost(req))
        ELSE /\ requeststats.drop
             /\ Count(requeststats.v6types, "error") = 1
             /\ Total(requeststats.v6types) = 1
             /\ requeststats.v6ia = NoCounts

\* two envelopes around a client message that asks for a reservation
C7_Witness ==
    /\ RequestDone6
    /\ WrapDepth(req) = 2
    /\ Innermost(req).kind = "Message"
    /\ Innermost(req).opts # <<>>
    /\ ~requeststats.drop
    /\ Total(requeststats.v6ia) = 1

\* the part of C8 about a type the request does not ask for
NothingForAbsentType(code) ==
    OptionsOfCode(req.opts, code) = <<>> =>
        /\ FixupCalls(code) = 0
        /\ QuantifierIncrements(code) = 0
        /\ responsestats.drop \/
              OptionsOfCode(responsestats.ret.opts, code) = OptionsOfCode(resp.opts, code)

\* C8 as stated: in every DHCPv6 exchange, a reservation type the request
\* does not contain gets no ia_fixup call, no quantifier increment and no
\* denial marker, and a type it contains gets exactly one quantifier increment
C8_AsStated ==
    ResponseDone6 =>
        \A code \in Codes :
            /\ NothingForAbsentType(code)
            /\ OptionsOfCode(req.opts, code) # <<>> => QuantifierIncrements(code) = 1

\* C8 amended: a reservation type the request does not contain gets no
\* ia_fixup call, no quantifier increment and no denial marker, whatever the
\* response holds; a type it contains gets exactly one quantifier increment
\* when the exchange is not dropped, and none when it is
C8_NoSpuriousCategories ==
    ResponseDone6 =>
        \A code \in Codes :
            /\ NothingForAbsentType(code)
            /\ OptionsOfCode(req.opts, code) # <<>> =>
                  /\ QuantifierIncrements(code) = (IF responsestats.drop THEN 0 ELSE 1)
                  /\ FixupCalls(code) = (IF responsestats.drop THEN 0 ELSE 1)

\* the response holds a reservation of a type the request does not ask for,
\* and the request asks for another type
C8_Witness ==
    /\ ResponseDone6
    /\ ~responsestats.drop
    /\ req.opts # <<>>
    /\ resp.opts # <<>>
    /\ OptionsOfCode(req.opts, resp.opts[1].code) = <<>>
    /\ Total(responsestats.v6processed) = 1

\* ------------------------------------------------------------------------
\* Properties of the DHCPv4 handlers and of the log (checked under Spec)
\* ------------------------------------------------------------------------

\* both DHCPv4 handlers have returned for a BootRequest with relay agent
\* info and a valid gateway address
RelayedDone4 ==
    /\ family = "v4"
    /\ requeststats.ran
    /\ responsestats.ran
    /\ req.opcode = "BootRequest"
    /\ req.rai # <<>>
    /\ ~InvalidIP(req.giaddr)

\* the interface label in the line the response handler logged
LoggedLabel == responsestats.logged[1].intf

\* the request handler counted a missing interface identifier
MissingInterfaceId ==
    Count(requeststats.v4raimissingsuboptions, "AgentIDSubOption") = 1

\* the label is the circuit-id if non-empty, else the remote-id if non-empty,
\* else the sentinel
LabelFallback ==
    LoggedLabel = (IF req.rai[1].circuit # "" THEN req.rai[1].circuit
                   ELSE IF req.rai[1].remote # "" THEN req.rai[1].remote
                   ELSE "<unspecified>")

\* the missing-link-selection counter follows the link-selection sub-option
\* alone, and the counters hold nothing else about sub-options
LinkReportedAlone ==
    /\ Count(requeststats.v4raimissingsuboptions, "LinkSelectionSubOption")
          = (IF req.rai[1].link = "" THEN 1 ELSE 0)
    /\ Count(requeststats.v4raimissingsuboptions, "AgentIDSubOption") \in {0, 1}
    /\ DOMAIN requeststats.v4raimissingsuboptions
          \subseteq {"LinkSelectionSubOption", "AgentIDSubOption"}

\* C9 as stated: the label follows the fallback, and the missing
\* interface-identifier counter is incremented exactly when circuit-id and
\* remote-id are both empty, that is exactly when the logged label is the
\* sentinel, whatever the link-selection sub-option
C9_AsStated ==
    RelayedDone4 =>
        /\ LabelFallback
        /\ MissingInterfaceId <=> (req.rai[1].circuit = "" /\ req.rai[1].remote = "")
        /\ MissingInterfaceId <=> (LoggedLabel = "<unspecified>")
        /\ LinkReportedAlone

\* C9 amended: the label follows the fallback; the missing
\* interface-identifier counter is incremented exactly when circuit-id and
\* remote-id are both empty, whatever the link-selection sub-option; the
\* label is then the sentinel, and it is the sentinel text otherwise only
\* when the sub-option the fallback picks holds that very text
C9_InterfaceLabelFallback ==
    RelayedDone4 =>
        /\ LabelFallback
        /\ MissingInterfaceId <=> (req.rai[1].circuit = "" /\ req.rai[1].remote = "")
        /\ (LoggedLabel = "<unspecified>") <=>
              \/ MissingInterfaceId
              \/ req.rai[1].circuit = "<unspecified>"
              \/ (req.rai[1].circuit = "" /\ req.rai[1].remote = "<unspecified>")
        /\ LinkReportedAlone

\* circuit-id empty, remote-id not: the label is the remote-id and nothing is
\* reported missing although the link-selection sub-option is absent too
C9_Witness ==
    /\ RelayedDone4
    /\ req.rai[1].circuit = ""
    /\ req.rai[1].remote = "eth0"
    /\ req.rai[1].link = ""
    /\ LoggedLabel = "eth0"
    /\ ~MissingInterfaceId

\* C10 as stated: a response handler that returns drop = false has called the
\* Logger exactly once, whatever the request; one that returns drop = true
\* has not called it
C10_AsStated ==
    (family # "none" /\ responsestats.ran) =>
        Len(responsestats.logged) = (IF responsestats.drop THEN 0 ELSE 1)

\* C10 amended: a response handler that returns drop = false has called the
\* Logger exactly once, except for a DHCPv4 request whose opcode is not
\* BootRequest, for which it returns drop = false without calling it; one
\* that returns drop = true has not called it
C10_OneLogLinePerResponse ==
    (family # "none" /\ responsestats.ran) =>
        Len(responsestats.logged) =
            (IF responsestats.drop THEN 0
             ELSE IF family = "v4" /\ req.opcode # "BootRequest" THEN 0
             ELSE 1)

\* a DHCPv6 response without synthesized denial was logged once
C10_Witness ==
    /\ ResponseDone6
    /\ ~responsestats.drop
    /\ req.opts # <<>>
    /\ responsestats.ret = resp
    /\ Len(responsestats.logged) = 1

\* ------------------------------------------------------------------------
\* Responses to relayed DHCPv6 requests (checked under Spec)
\* ------------------------------------------------------------------------

\* the request is a chain of relay envelopes around a client message
RelayedRequest6 == IsRelay(req) /\ Innermost(req).kind = "Message"

\* C11: when the DHCPv6 request is a relay envelope around a client message
\* and the proposed response is a client message, the response handler
\* returns drop = false, increments dhcpv6_to_relays_total exactly once and
\* reconciles the client's requested reservations against the response
\* (each of them is in the returned response); when the request is not
\* relayed it does not increment dhcpv6_to_relays_total
C11_RelayedResponsesCounted ==
    ResponseDone6 =>
        /\ (RelayedRequest6 /\ resp.kind = "Message") =>
              /\ ~responsestats.drop
              /\ responsestats.v6relay = 1
              /\ \A i \in 1..Len(Innermost(req).opts) :
                    \E j \in 1..Len(responsestats.ret.opts) :
                        /\ responsestats.ret.opts[j].code = Innermost(req).opts[i].code
                        /\ responsestats.ret.opts[j].id = Innermost(req).opts[i].id
        /\ ~IsRelay(req) => responsestats.v6relay = 0

====
